---------------------------- MODULE Spec2Model ----------------------------
(***************************************************************************)
(* Task-management REST API (routes/tasks.js, server.js, config/database.js)*)
(* as a state machine.  The state is the tasks table, the uploads/         *)
(* directory, the request a multi-query handler is still working on, and   *)
(* the last HTTP response sent.  One action per route handler; a handler   *)
(* that awaits several queries (PUT, bulk-upload) is one action per await. *)
(***************************************************************************)
EXTENDS Integers, Sequences, FiniteSets, TLC

VARIABLES
    store,      \* tasks table: auto-increment id -> row
    nextId,     \* AUTO_INCREMENT counter of tasks.id
    disk,       \* paths present in uploads/
    enoent,     \* TRUE once fs.unlinkSync was called on a path not on disk
    req,        \* the request received last
    cur,        \* locals of its handler while suspended at an await
    resp,       \* the response to req, NoResp until it is sent
    now,        \* CURRENT_TIMESTAMP of the latest INSERT, in whole seconds
    lastId,     \* the last id the counter hands out in the run explored
    other,      \* a request handled while the handler of req is suspended
    page,       \* the Tasks page of the browser: its list and its fetches
    proc        \* the node process: how far server.js has come

vars == <<store, nextId, disk, enoent, req, cur, resp, now, lastId,
          other, page, proc>>

-----------------------------------------------------------------------------
(* Bounds of the model *)

\* ids the AUTO_INCREMENT counter may hand out
MaxId == 1
\* data rows of an uploaded file
MaxRows == 2

-----------------------------------------------------------------------------
(* Program constants *)

\* tasks.title is VARCHAR(255)
TitleMax == 255

-----------------------------------------------------------------------------
(* Values *)

\* JavaScript undefined / null / a missing key
Undefined == "<undefined>"

Users == {"alice", "bob"}
Unauthorized == "<unauthorized>"

\* bearer tokens a request may carry: one valid token per user, none,
\* a malformed one, an expired one
Tokens == {"tok-alice", "tok-bob", Undefined, "garbage", "tok-expired"}

\* a title of 256 characters; every other title is short
LongTitle == "<256 chars>"

StrLen(s) == IF s = "" THEN 0 ELSE IF s = LongTitle THEN TitleMax + 1 ELSE 1

Statuses == {"pending", "in_progress", "completed"}

D1 == "2024-12-31"
D1T == "2024-12-31T10:30:00"
Epoch == "1970-01-01"
D1Json == "2024-12-31T00:00:00.000Z"
EpochJson == "1970-01-01T00:00:00.000Z"
BadDate == "not-a-date"

Ids == 1 .. (MaxId + 1)

NoTask ==
    [id |-> 0, user_id |-> "", title |-> "", description |-> "",
     effort_days |-> 0, due_date |-> "", status |-> "", created_at |-> 0]

\* the handler has no locals: it has answered, or has not started
NoCur == [pc |-> "idle"]

\* req.body with every field absent
NoBody ==
    [title |-> Undefined, description |-> Undefined,
     effort_days |-> Undefined, due_date |-> Undefined, status |-> Undefined]

Request(op, tok, id, body, mimetype) ==
    [op |-> op, token |-> tok, id |-> id, body |-> body,
     mimetype |-> mimetype, size |-> Undefined]

NoRequest == Request("none", Undefined, 0, NoBody, Undefined)

\* errorsKey says whether the JSON body has an errors key at all
NoResp ==
    [status |-> 0, message |-> "", task |-> NoTask, tasks |-> <<>>,
     errors |-> <<>>, errorsKey |-> FALSE, imported |-> -1, queries |-> 0]

\* a response with no body beyond its message; q is the number of queries
\* the handler had issued when it answered
\* no request was handled in between
NoOther ==
    [op |-> "none", token |-> Undefined, id |-> 0, status |-> 0,
     tasks |-> <<>>]

\* the Tasks page before it is mounted: empty list, no fetch issued
NoPage == [tasks |-> <<>>, fetches |-> <<>>, issued |-> 0, shown |-> 0]

\* the process once app.listen has been called on initialised tables
Serving ==
    [phase |-> "listening", tables |-> TRUE, exitCode |-> -1,
     signal |-> "", error |-> "", closed |-> FALSE]

Reply(status, message, q) ==
    [NoResp EXCEPT !.status = status, !.message = message, !.queries = q]

-----------------------------------------------------------------------------
(* middleware/auth.js: authenticateToken.  The user a bearer token stands  *)
(* for, or Unauthorized when the token is absent, malformed or expired.    *)

authenticateToken(tok) ==
    CASE tok = "tok-alice" -> "alice"
      [] tok = "tok-bob" -> "bob"
      [] OTHER -> Unauthorized

\* the response of authenticateToken to a request it turns away
AuthReject == Reply(401, "unauthorized", 0)

-----------------------------------------------------------------------------
(* express-validator chains of POST / and PUT /:id *)

\* the number a string of decimal digits denotes; ok is FALSE (NaN) for
\* any other string
Digits(s) ==
    CASE s = "0" -> [ok |-> TRUE, n |-> 0]
      [] s = "1" -> [ok |-> TRUE, n |-> 1]
      [] s = "2" -> [ok |-> TRUE, n |-> 2]
      [] OTHER -> [ok |-> FALSE, n |-> 0]

\* notEmpty() left off the chain: every title passes
NotEmptyDropped(v) == TRUE

\* body('title').notEmpty()
NotEmpty(v) == v # Undefined /\ v # ""

\* the effort chain made .optional(): an absent value passes
IsIntMin1Optional(v) == v = Undefined \/ (Digits(v).ok /\ Digits(v).n >= 1)

\* body('effort_days').isInt({ min: 1 })
IsIntMin1(v) == Digits(v).ok /\ Digits(v).n >= 1

\* body('due_date').isISO8601(): calendar dates and date-times both pass
IsISO8601(v) == v \in {D1, D1T, Epoch}

\* body('status').optional().isIn([...])
StatusOk(v) == v = Undefined \/ v \in Statuses

ErrIf(bad, param, msg) ==
    IF bad THEN <<[param |-> param, msg |-> msg]>> ELSE <<>>

\* validationResult(req).array() for the chain of POST /
CreateErrors(body) ==
    ErrIf(~NotEmpty(body.title), "title", "Title is required")
    \o ErrIf(~IsIntMin1(body.effort_days), "effort_days",
             "Effort must be at least 1 day")
    \o ErrIf(~IsISO8601(body.due_date), "due_date",
             "Please provide a valid due date")

\* validationResult(req).array() for the chain of PUT /:id
UpdateErrors(body) ==
    CreateErrors(body)
    \o ErrIf(~StatusOk(body.status), "status", "Invalid status")

-----------------------------------------------------------------------------
(* The tasks table (config/database.js) *)

\* due_date DATE: the column keeps the calendar date of what is written
DateColumn(v) == IF v = D1T THEN D1 ELSE v

\* title VARCHAR(255) NOT NULL: a longer title makes the statement fail
TitleFits(title) == title # Undefined /\ StrLen(title) <= TitleMax

\* description || ''
OrEmpty(v) == IF v = Undefined \/ v = "" THEN "" ELSE v

\* status || 'pending'
OrPending(v) == IF v = Undefined \/ v = "" THEN "pending" ELSE v

\* the INSERT with the description parameter left out of the statement
NewRowNoDescription(id, user, title, description, effort, due, created) ==
    [id |-> id, user_id |-> user, title |-> title, description |-> "",
     effort_days |-> effort, due_date |-> DateColumn(due),
     status |-> "pending", created_at |-> created]

\* the row INSERT INTO tasks (user_id, title, description, effort_days,
\* due_date) writes; status and created_at take the column defaults
NewRow(id, user, title, description, effort, due, created) ==
    [id |-> id, user_id |-> user, title |-> title,
     description |-> description, effort_days |-> effort,
     due_date |-> DateColumn(due), status |-> "pending",
     created_at |-> created]

\* created_at TIMESTAMP DEFAULT CURRENT_TIMESTAMP: an INSERT falls in the
\* second of the INSERT before it or in a later one; the first INSERT into
\* the table fixes the second the count starts from
ClockReadings == IF nextId = 1 THEN {now} ELSE {now, now + 1}

\* an INSERT or UPDATE succeeds when the row satisfies the column types
InsertOk(title) == TitleFits(title)

\* DELETE FROM tasks WHERE id = ?
Without(id) == [i \in DOMAIN store \ {id} |-> store[i]]

\* the WHERE clause without its user_id condition
OwnedByAnyone(id, user) == id \in DOMAIN store

\* SELECT ... WHERE id = ? AND user_id = ?
OwnedBy(id, user) == id \in DOMAIN store /\ store[id].user_id = user

\* res.json of a DATE value: the driver hands it over as a Date at midnight
\* (the server's zone taken to be UTC) and JSON writes its toISOString()
JsonDate(d) ==
    CASE d = D1 -> D1Json
      [] d = Epoch -> EpochJson
      [] OTHER -> d

\* res.json of one row of tasks
JsonTask(t) == [t EXCEPT !.due_date = JsonDate(@)]

\* the orders ORDER BY created_at DESC may return the rows ids in: rows of
\* the same second come in any order
\* an ORDER BY created_at ASC
RECURSIVE OrdersOldestFirst(_)
OrdersOldestFirst(ids) ==
    IF ids = {} THEN {<<>>}
    ELSE UNION {{<<store[m]>> \o rest : rest \in OrdersOldestFirst(ids \ {m})} :
                  m \in {x \in ids : \A y \in ids :
                            store[x].created_at <= store[y].created_at}}

RECURSIVE Orders(_)
Orders(ids) ==
    IF ids = {} THEN {<<>>}
    ELSE UNION {{<<store[m]>> \o rest : rest \in Orders(ids \ {m})} :
                  m \in {x \in ids : \A y \in ids :
                            store[y].created_at <= store[x].created_at}}

\* SELECT * FROM tasks WHERE user_id = ? ORDER BY created_at DESC: the
\* results the statement may give
TasksOf(user) == Orders({i \in DOMAIN store : store[i].user_id = user})

-----------------------------------------------------------------------------
(* Requests *)

\* a body every validator of both chains accepts
BaseBody ==
    [title |-> "A", description |-> "d", effort_days |-> "2",
     due_date |-> D1, status |-> Undefined]

\* req.body of POST /: bodies the chain accepts, and bodies with one field
\* or several fields it refuses
CreateBodies ==
    {[BaseBody EXCEPT !.title = t, !.description = d, !.due_date = dd] :
        t \in {"A", LongTitle}, d \in {Undefined, "d"}, dd \in {D1, D1T}}
    \cup {[BaseBody EXCEPT !.title = ""],
          [BaseBody EXCEPT !.effort_days = Undefined],
          [BaseBody EXCEPT !.effort_days = "0"],
          [BaseBody EXCEPT !.due_date = BadDate],
          [BaseBody EXCEPT !.title = "", !.effort_days = "0",
                           !.due_date = BadDate]}

\* req.body of PUT /:id
UpdateBodies ==
    {[BaseBody EXCEPT !.description = d, !.status = s] :
        d \in {Undefined, "d"}, s \in {Undefined, "completed"}}
    \cup {[BaseBody EXCEPT !.title = LongTitle],
          [BaseBody EXCEPT !.title = ""],
          [BaseBody EXCEPT !.effort_days = "0"],
          [BaseBody EXCEPT !.due_date = BadDate],
          [BaseBody EXCEPT !.status = "bogus"],
          [BaseBody EXCEPT !.title = "", !.effort_days = "0",
                           !.due_date = BadDate, !.status = "bogus"]}

\* A request the authentication turns away is not read any further: one
\* body stands for all of them
BodiesOf(tok, bodies) ==
    IF authenticateToken(tok) = Unauthorized THEN {BaseBody} ELSE bodies

\* likewise req.params.id
IdsOf(tok) == IF authenticateToken(tok) = Unauthorized THEN {1} ELSE Ids

\* no handler is suspended at an await
Idle == cur.pc \in {"idle", "done"}

-----------------------------------------------------------------------------
(* router.get('/') *)

ListTasks(tok) ==
    LET u == authenticateToken(tok) IN
    /\ req' = Request("list", tok, 0, NoBody, Undefined)
    /\ IF u = Unauthorized THEN resp' = AuthReject
       ELSE \E tasks \in TasksOf(u) :
               resp' = [Reply(200, "", 1)
                           EXCEPT !.tasks = [i \in 1 .. Len(tasks) |->
                                               JsonTask(tasks[i])]]
    /\ cur' = NoCur
    /\ UNCHANGED <<store, nextId, disk, enoent, now, lastId,
                 other, page, proc>>

(* router.get('/:id') *)

GetTask(tok, id) ==
    LET u == authenticateToken(tok) IN
    /\ req' = Request("get", tok, id, NoBody, Undefined)
    /\ resp' = IF u = Unauthorized THEN AuthReject
               ELSE IF ~OwnedBy(id, u) THEN Reply(404, "Task not found", 1)
               ELSE [Reply(200, "", 1) EXCEPT !.task = JsonTask(store[id])]
    /\ cur' = NoCur
    /\ UNCHANGED <<store, nextId, disk, enoent, now, lastId,
                 other, page, proc>>

(* router.post('/') *)

CreateTask(tok, body) ==
    LET u == authenticateToken(tok)
        errors == CreateErrors(body)
        row(t) == NewRow(nextId, u, body.title, OrEmpty(body.description),
                         Digits(body.effort_days).n, body.due_date, t)
    IN
    /\ req' = Request("create", tok, 0, body, Undefined)
    /\ cur' = NoCur
    /\ UNCHANGED <<disk, enoent, lastId,
                 other, page, proc>>
    /\ IF u = Unauthorized
       THEN resp' = AuthReject /\ UNCHANGED <<store, nextId, now>>
       ELSE IF errors # <<>>
       THEN /\ resp' = [Reply(400, "", 0) EXCEPT !.errors = errors,
                                              !.errorsKey = TRUE]
            /\ UNCHANGED <<store, nextId, now>>
       ELSE IF ~InsertOk(body.title)
       THEN /\ resp' = Reply(500, "Error creating task", 1)
            /\ UNCHANGED <<store, nextId, now>>
       ELSE /\ nextId <= lastId
            /\ \E t \in ClockReadings :
                  /\ now' = t
                  /\ store' = (nextId :> row(t)) @@ store
            /\ nextId' = nextId + 1
            \* SELECT * FROM tasks WHERE id = insertId
            /\ resp' = [Reply(201, "Task created successfully", 2)
                           EXCEPT !.task = JsonTask(store'[nextId])]

(* router.delete('/:id') *)

\* a DELETE FROM tasks WHERE user_id = ?
DeleteTaskAllOwned(tok, id) ==
    LET u == authenticateToken(tok) IN
    /\ req' = Request("delete", tok, id, NoBody, Undefined)
    /\ cur' = NoCur
    /\ UNCHANGED <<nextId, disk, enoent, now, lastId, other, page, proc>>
    /\ IF u = Unauthorized
       THEN resp' = AuthReject /\ UNCHANGED store
       ELSE IF ~OwnedBy(id, u)
       THEN resp' = Reply(404, "Task not found", 1) /\ UNCHANGED store
       ELSE /\ store' = [i \in {j \in DOMAIN store : store[j].user_id # u}
                           |-> store[i]]
            /\ resp' = Reply(200, "Task deleted successfully", 1)

\* a handler that does not look at affectedRows
DeleteTaskUnchecked(tok, id) ==
    LET u == authenticateToken(tok) IN
    /\ req' = Request("delete", tok, id, NoBody, Undefined)
    /\ cur' = NoCur
    /\ UNCHANGED <<nextId, disk, enoent, now, lastId,
                 other, page, proc>>
    /\ IF u = Unauthorized
       THEN resp' = AuthReject /\ UNCHANGED store
       ELSE /\ store' = IF OwnedBy(id, u) THEN Without(id) ELSE store
            /\ resp' = Reply(200, "Task deleted successfully", 1)

DeleteTask(tok, id) ==
    LET u == authenticateToken(tok) IN
    /\ req' = Request("delete", tok, id, NoBody, Undefined)
    /\ cur' = NoCur
    /\ UNCHANGED <<nextId, disk, enoent, now, lastId,
                 other, page, proc>>
    /\ IF u = Unauthorized
       THEN resp' = AuthReject /\ UNCHANGED store
       ELSE IF ~OwnedBy(id, u)
       THEN resp' = Reply(404, "Task not found", 1) /\ UNCHANGED store
       ELSE /\ store' = Without(id)
            /\ resp' = Reply(200, "Task deleted successfully", 1)

(* router.put('/:id'): validation and the ownership SELECT *)

PutCheck(tok, id, body) ==
    LET u == authenticateToken(tok)
        errors == UpdateErrors(body)
    IN
    /\ req' = Request("put", tok, id, body, Undefined)
    /\ UNCHANGED <<store, nextId, disk, enoent, now, lastId,
                 other, page, proc>>
    /\ IF u = Unauthorized
       THEN resp' = AuthReject /\ cur' = NoCur
       ELSE IF errors # <<>>
       THEN /\ resp' = [Reply(400, "", 0) EXCEPT !.errors = errors,
                                              !.errorsKey = TRUE]
            /\ cur' = NoCur
       ELSE IF ~OwnedBy(id, u)
       THEN resp' = Reply(404, "Task not found", 1) /\ cur' = NoCur
       ELSE /\ resp' = NoResp
            /\ cur' = [pc |-> "put-update", user |-> u]

(* an UPDATE that leaves the columns the body omits as they are *)

PutUpdateKeepsOmitted ==
    /\ cur.pc = "put-update"
    /\ UNCHANGED <<nextId, disk, enoent, req, now, lastId,
                 other, page, proc>>
    /\ IF ~InsertOk(req.body.title)
       THEN /\ resp' = Reply(500, "Error updating task", 2)
            /\ cur' = NoCur
            /\ UNCHANGED store
       ELSE /\ store' =
                IF OwnedBy(req.id, cur.user)
                THEN [store EXCEPT ![req.id] =
                        [@ EXCEPT !.title = req.body.title,
                                  !.description =
                                     IF req.body.description = Undefined
                                     THEN @ ELSE req.body.description,
                                  !.effort_days = Digits(req.body.effort_days).n,
                                  !.due_date = DateColumn(req.body.due_date),
                                  !.status =
                                     IF req.body.status = Undefined
                                     THEN @ ELSE req.body.status]]
                ELSE store
            /\ cur' = [cur EXCEPT !.pc = "put-reread"]
            /\ UNCHANGED resp

(* router.put('/:id'): the UPDATE *)

PutUpdate ==
    /\ cur.pc = "put-update"
    /\ UNCHANGED <<nextId, disk, enoent, req, now, lastId,
                 other, page, proc>>
    /\ IF ~InsertOk(req.body.title)
       THEN /\ resp' = Reply(500, "Error updating task", 2)
            /\ cur' = NoCur
            /\ UNCHANGED store
       ELSE /\ store' =
                IF OwnedBy(req.id, cur.user)
                THEN [store EXCEPT ![req.id] =
                        [@ EXCEPT !.title = req.body.title,
                                  !.description = OrEmpty(req.body.description),
                                  !.effort_days = Digits(req.body.effort_days).n,
                                  !.due_date = DateColumn(req.body.due_date),
                                  !.status = OrPending(req.body.status)]]
                ELSE store
            /\ cur' = [cur EXCEPT !.pc = "put-reread"]
            /\ UNCHANGED resp

(* router.put('/:id'): the final SELECT and the response *)

PutReread ==
    /\ cur.pc = "put-reread"
    /\ resp' = [Reply(200, "Task updated successfully", 3)
                   EXCEPT !.task = IF req.id \in DOMAIN store
                                   THEN JsonTask(store[req.id])
                                   ELSE NoTask]
    /\ cur' = NoCur
    /\ UNCHANGED <<store, nextId, disk, enoent, req, now, lastId,
                 other, page, proc>>

(* router.get('/export/excel') *)

\* worksheet.addRow({...}): the cells of one exported row
ExportRow(t) ==
    [title |-> t.title, description |-> t.description,
     effort_days |-> t.effort_days, due_date |-> t.due_date,
     status |-> t.status, created_at |-> t.created_at]

ExportTasks(tok) ==
    LET u == authenticateToken(tok) IN
    /\ req' = Request("export", tok, 0, NoBody, Undefined)
    /\ IF u = Unauthorized THEN resp' = AuthReject
       ELSE \E rows \in TasksOf(u) :
               resp' = [Reply(200, "", 1)
                           EXCEPT !.tasks = [i \in 1 .. Len(rows) |->
                                               ExportRow(rows[i])]]
    /\ cur' = NoCur
    /\ UNCHANGED <<store, nextId, disk, enoent, now, lastId,
                 other, page, proc>>

-----------------------------------------------------------------------------
(* Uploaded files *)

CSV == "text/csv"
XLSX == "application/vnd.openxmlformats-officedocument.spreadsheetml.sheet"
XLS == "application/vnd.ms-excel"
PDF == "application/pdf"

\* the declared content type of the multipart file part; Undefined when the
\* request carries no file part
MimeTypes == {Undefined, CSV, XLSX, XLS, PDF}

\* an allowedTypes list that also names application/pdf
AllowedTypesWithPdf == {XLS, XLSX, CSV, PDF}

\* allowedTypes of the multer fileFilter
AllowedTypes == {XLS, XLSX, CSV}

\* the size of the uploaded file: under and over the 10MB the upload
\* dialog announces
SmallFile == "1MB"
LargeFile == "11MB"

\* the files Spec uploads are small
SizeOf(mimetype) == IF mimetype = Undefined THEN Undefined ELSE SmallFile

\* multer's destination file for the upload being handled
TmpPath == "uploads/tmp"

\* header lines of a delimited-text file
LowerHeader == <<"title", "description", "effort_days", "due_date">>
ExportHeader == <<"Title", "Description", "Effort (Days)", "Due Date">>
Headers == {LowerHeader, ExportHeader}

\* the four cells of a data row, as text; "" is an empty cell
Cells(title, effort, due) ==
    [title |-> title, description |-> "", effort |-> effort, due |-> due]

RowSamples ==
    { Cells("A", "2", D1),          \* complete row
      Cells("A", "0", D1),          \* effort zero
      Cells("", "1", D1),           \* title missing
      Cells(LongTitle, "2", D1) }   \* title too long for the column

RECURSIVE SeqsUpTo(_, _)
SeqsUpTo(S, n) ==
    IF n = 0 THEN {<<>>}
    ELSE LET shorter == SeqsUpTo(S, n - 1)
         IN shorter \cup {Append(q, x) : q \in {r \in shorter : Len(r) = n - 1},
                                         x \in S}

\* a file the parser of its format cannot read
Unreadable == [header |-> ExportHeader, rows |-> <<>>, readable |-> FALSE]

\* what is in the uploaded file: its header line, its data rows, and
\* whether the parser can read it at all
Contents ==
    {Unreadable}
        \cup [header : Headers, rows : SeqsUpTo(RowSamples, MaxRows),
              readable : {TRUE}]

\* the files of a content type: row 1 of a worksheet is skipped unread, so
\* one header line stands for all of them
ContentsOf(mimetype) ==
    IF mimetype = CSV THEN Contents
    ELSE {c \in Contents : c.header = ExportHeader}

-----------------------------------------------------------------------------
(* JavaScript expressions of the two row handlers *)

Truthy(v) == v # Undefined /\ v # ""

\* a || b
JsOr(a, b) == IF Truthy(a) THEN a ELSE b

\* parseInt(v): ok is FALSE for NaN
ParseInt(v) == Digits(v)

\* new Date(v) is a valid date
ValidDate(v) == v \in {D1, D1T, Epoch, D1Json, EpochJson}

\* new Date(v).toISOString().split('T')[0] of a valid date
IsoDate(v) ==
    CASE v \in {D1T, D1Json} -> D1
      [] v = EpochJson -> Epoch
      [] OTHER -> v

\* a row object whose keys are looked up without regard to letter case
CsvFieldIgnoreCase(header, c, key) ==
    LET lower(k) ==
            CASE k \in {"title", "Title", "TITLE"} -> "title"
              [] k \in {"description", "Description", "DESCRIPTION"}
                    -> "description"
              [] k \in {"effort_days", "EFFORT_DAYS"} -> "effort_days"
              [] k = "Effort (Days)" -> "effort (days)"
              [] k \in {"due_date", "DUE_DATE"} -> "due_date"
              [] k = "Due Date" -> "due date"
              [] OTHER -> k
    IN CASE lower(key) = lower(header[1]) -> c.title
         [] lower(key) = lower(header[2]) -> c.description
         [] lower(key) = lower(header[3]) -> c.effort
         [] lower(key) = lower(header[4]) -> c.due
         [] OTHER -> Undefined

\* row[key] of the object csv-parser builds from the header line
CsvField(header, c, key) ==
    CASE key = header[1] -> c.title
      [] key = header[2] -> c.description
      [] key = header[3] -> c.effort
      [] key = header[4] -> c.due
      [] OTHER -> Undefined

\* the task object of the .on('data') handler; thrown is TRUE when
\* toISOString raises RangeError
CsvTask(header, c) ==
    LET f(key) == CsvField(header, c, key)
        effort == JsOr(JsOr(JsOr(f("effort_days"), f("Effort (Days)")),
                            f("effort")), "1")
        due == JsOr(f("due_date"), f("Due Date"))
    IN [thrown |-> ~ValidDate(due),
        title |-> JsOr(f("title"), f("Title")),
        description |-> JsOr(JsOr(f("description"), f("Description")), ""),
        effort_days |-> ParseInt(effort),
        due_date |-> IsoDate(due)]

\* row.getCell(n).value: an empty cell reads as null
CellValue(v) == IF v = "" THEN Undefined ELSE v

\* the task object of the eachRow callback; new Date(null) is the epoch
XlsxTask(c) ==
    LET due == IF CellValue(c.due) = Undefined THEN Epoch ELSE c.due
        effort == ParseInt(CellValue(c.effort))
    IN [thrown |-> ~ValidDate(due),
        title |-> CellValue(c.title),
        description |-> JsOr(CellValue(c.description), ""),
        \* parseInt(...) || 1
        effort_days |-> IF effort.ok /\ effort.n # 0 THEN effort
                        ELSE [ok |-> TRUE, n |-> 1],
        due_date |-> IsoDate(due)]

\* a task object whose description is left out when the cell is empty
CandidateNullDescription(t) ==
    [title |-> t.title,
     description |-> IF t.description = "" THEN Undefined ELSE t.description,
     effort_days |-> t.effort_days.n, due_date |-> t.due_date]

\* !task.title || !task.due_date || isNaN(task.effort_days)
RowInvalid(t) ==
    ~Truthy(t.title) \/ ~Truthy(t.due_date) \/ ~t.effort_days.ok

Candidate(t) ==
    [title |-> t.title, description |-> t.description,
     effort_days |-> t.effort_days.n, due_date |-> t.due_date]

\* the task object the row handler of the file's format builds
RowTask(mimetype, header, c) ==
    IF mimetype = CSV THEN CsvTask(header, c) ELSE XlsxTask(c)

\* error strings that count the data rows, not the rows of the worksheet
RowLabelFromOne(mimetype, i) == i

\* worksheet.eachRow visits the rows that have a value in some cell
HasValues(c) == c.title # "" \/ c.description # "" \/ c.effort # "" \/ c.due # ""

\* how an error string names its row: the spreadsheet handler by rowNumber
\* (row 1 is the header), the CSV handler by the row's content
RowLabel(mimetype, i) == IF mimetype = CSV THEN i ELSE i + 1

\* a row handler that gives up at the first row it cannot use
RECURSIVE ParseRowsUntilBad(_, _, _, _)
ParseRowsUntilBad(mimetype, header, rows, n) ==
    IF n = 0 THEN [tasks |-> <<>>, errors |-> <<>>]
    ELSE LET prev == ParseRowsUntilBad(mimetype, header, rows, n - 1)
             t == RowTask(mimetype, header, rows[n])
             at == RowLabel(mimetype, n)
         IN IF prev.errors # <<>> THEN prev
            ELSE IF t.thrown \/ RowInvalid(t)
            THEN [prev EXCEPT !.errors =
                     Append(@, [kind |-> "invalid", at |-> at])]
            ELSE [prev EXCEPT !.tasks = Append(@, Candidate(t))]

\* a row handler that assigns to errors where the code pushes
RECURSIVE ParseRowsLastError(_, _, _, _)
ParseRowsLastError(mimetype, header, rows, n) ==
    IF n = 0 THEN [tasks |-> <<>>, errors |-> <<>>]
    ELSE LET prev == ParseRowsLastError(mimetype, header, rows, n - 1)
             t == RowTask(mimetype, header, rows[n])
             at == RowLabel(mimetype, n)
         IN IF t.thrown
            THEN [prev EXCEPT !.errors = <<[kind |-> "exception", at |-> at]>>]
            ELSE IF RowInvalid(t)
            THEN [prev EXCEPT !.errors = <<[kind |-> "invalid", at |-> at]>>]
            ELSE [prev EXCEPT !.tasks = Append(@, Candidate(t))]

\* the tasks and errors arrays after the row handler has run on rows 1..n
RECURSIVE ParseRows(_, _, _, _)
ParseRows(mimetype, header, rows, n) ==
    IF n = 0 THEN [tasks |-> <<>>, errors |-> <<>>]
    ELSE LET prev == ParseRows(mimetype, header, rows, n - 1)
             t == RowTask(mimetype, header, rows[n])
             at == RowLabel(mimetype, n)
         IN IF mimetype # CSV /\ ~HasValues(rows[n])
            THEN prev
            ELSE IF t.thrown
            THEN [prev EXCEPT !.errors =
                     Append(@, [kind |-> "exception", at |-> at])]
            ELSE IF RowInvalid(t)
            THEN [prev EXCEPT !.errors =
                     Append(@, [kind |-> "invalid", at |-> at])]
            ELSE [prev EXCEPT !.tasks = Append(@, Candidate(t))]

\* a catch block that only logs and answers
CatchCleanupSkipped(path) == disk

\* the catch block of the bulk-upload handler: fs.existsSync guards unlinkSync
CatchCleanup(path) == IF path \in disk THEN disk \ {path} ELSE disk

\* errors: errors.length > 0 ? errors : undefined, and JSON drops a key
\* whose value is undefined
\* a response that always carries the errors key, empty list included
ErrorsAlwaysShown(errors) == TRUE

ErrorsShown(errors) == errors # <<>>

\* candidates whose INSERT will take an id
NumInsertable(tasks) ==
    Cardinality({i \in 1 .. Len(tasks) : InsertOk(tasks[i].title)})

-----------------------------------------------------------------------------
(* The bulk-upload route with upload.single('file') ahead of               *)
(* authenticateToken: multer stores the file before the token is looked at *)

BulkUploadFileFirst(tok, mimetype, size) ==
    LET u == authenticateToken(tok) IN
    /\ req' = [Request("bulk", tok, 0, NoBody, mimetype) EXCEPT !.size = size]
    /\ UNCHANGED <<store, nextId, enoent, now, lastId,
                 other, page, proc>>
    /\ IF mimetype # Undefined /\ mimetype \notin {XLS, XLSX, CSV}
       THEN /\ resp' = Reply(400,
                    "Invalid file type. Only Excel and CSV files are allowed.",
                    0)
            /\ cur' = NoCur
            /\ UNCHANGED disk
       ELSE IF u = Unauthorized
       THEN /\ resp' = AuthReject
            /\ cur' = NoCur
            /\ disk' = IF mimetype = Undefined THEN disk
                       ELSE disk \cup {TmpPath}
       ELSE IF mimetype = Undefined
       THEN /\ resp' = Reply(400, "No file uploaded", 0)
            /\ cur' = NoCur
            /\ UNCHANGED disk
       ELSE /\ disk' = disk \cup {TmpPath}
            /\ resp' = NoResp
            /\ cur' = [pc |-> "bulk-parse", user |-> u, path |-> TmpPath]

-----------------------------------------------------------------------------
(* router.post('/bulk-upload'): authenticateToken, then upload.single('file') *)

\* multer is configured with dest and fileFilter only: no limits, so the
\* size of the file plays no part
BulkUpload(tok, mimetype, size) ==
    LET u == authenticateToken(tok) IN
    /\ req' = [Request("bulk", tok, 0, NoBody, mimetype) EXCEPT !.size = size]
    /\ UNCHANGED <<store, nextId, enoent, now, lastId,
                 other, page, proc>>
    /\ IF u = Unauthorized
       THEN resp' = AuthReject /\ cur' = NoCur /\ UNCHANGED disk
       ELSE IF mimetype = Undefined
       THEN \* no file part: the handler answers at once
            /\ resp' = Reply(400, "No file uploaded", 0)
            /\ cur' = NoCur
            /\ UNCHANGED disk
       ELSE IF mimetype \notin AllowedTypes
       THEN \* fileFilter passes an Error on; server.js answers it
            /\ resp' = Reply(400,
                    "Invalid file type. Only Excel and CSV files are allowed.",
                    0)
            /\ cur' = NoCur
            /\ UNCHANGED disk
       ELSE /\ disk' = disk \cup {TmpPath}
            /\ resp' = NoResp
            /\ cur' = [pc |-> "bulk-parse", user |-> u, path |-> TmpPath]

(* the handler from reading the file to the check for zero valid rows *)

\* what is left of the locals once the response is out: the number of data
\* rows read, the number of candidates, and the ids of insertedTasks
Finished(user, rows, candidates, inserted) ==
    [pc |-> "done", user |-> user, rows |-> rows,
     candidates |-> candidates, inserted |-> inserted]

BulkParse(content) ==
    /\ cur.pc = "bulk-parse"
    /\ UNCHANGED <<store, nextId, req, now, lastId,
                 other, page, proc>>
    /\ LET parsed == ParseRows(req.mimetype, content.header, content.rows,
                               Len(content.rows))
           locals == [pc |-> "bulk-insert", user |-> cur.user,
                      rows |-> Len(content.rows), tasks |-> parsed.tasks,
                      i |-> 1, errors |-> parsed.errors, inserted |-> <<>>]
       IN
       IF ~content.readable
       THEN \* the parser rejects: catch block
            /\ disk' = CatchCleanup(cur.path)
            /\ UNCHANGED enoent
            /\ resp' = Reply(500, "Error processing bulk upload", 0)
            /\ cur' = NoCur
       ELSE IF cur.path \notin disk
       THEN \* fs.unlinkSync throws ENOENT: catch block
            /\ enoent' = TRUE
            /\ disk' = CatchCleanup(cur.path)
            /\ resp' = Reply(500, "Error processing bulk upload", 0)
            /\ cur' = NoCur
       ELSE /\ disk' = disk \ {cur.path}
            /\ UNCHANGED enoent
            /\ IF parsed.tasks = <<>>
               THEN /\ resp' = [Reply(400, "No valid tasks found in the file",
                                      0)
                                   EXCEPT !.errors = parsed.errors,
                                          !.errorsKey = TRUE]
                    /\ cur' = Finished(cur.user, Len(content.rows), 0, <<>>)
               ELSE /\ NumInsertable(parsed.tasks) <= lastId + 1 - nextId
                    /\ resp' = NoResp
                    /\ cur' = locals

(* an insert loop inside a transaction that a failed INSERT rolls back   *)

BulkInsertAllOrNothing ==
    /\ cur.pc = "bulk-insert"
    /\ UNCHANGED <<disk, enoent, req, lastId,
                 other, page, proc>>
    /\ LET task == cur.tasks[cur.i]
           ok == InsertOk(task.title)
           errors == IF ok THEN cur.errors
                     ELSE Append(cur.errors,
                                 [kind |-> "insert", at |-> cur.i])
           \* insertedTasks.push({ ...task, id: result.insertId })
           inserted == IF ok THEN Append(cur.inserted, nextId)
                       ELSE cur.inserted
           last == cur.i = Len(cur.tasks)
       IN
       /\ IF ok
          THEN /\ \E t \in ClockReadings :
                     /\ now' = t
                     /\ store' = (nextId :> NewRow(nextId, cur.user,
                                                   task.title, task.description,
                                                   task.effort_days,
                                                   task.due_date, t))
                                 @@ store
               /\ nextId' = nextId + 1
          ELSE /\ store' = [id \in DOMAIN store
                                  \ {cur.inserted[k] :
                                        k \in 1 .. Len(cur.inserted)}
                               |-> store[id]]
               /\ UNCHANGED <<nextId, now>>
       /\ cur' = IF last
                 THEN Finished(cur.user, cur.rows, Len(cur.tasks), inserted)
                 ELSE [cur EXCEPT !.i = cur.i + 1, !.errors = errors,
                                  !.inserted = inserted]
       /\ resp' = IF last
                  THEN [Reply(200, "Successfully imported", cur.i)
                           EXCEPT !.imported = Len(inserted),
                                  !.errors = errors,
                                  !.errorsKey = ErrorsShown(errors)]
                  ELSE NoResp

(* an insert loop whose response fails when any error was collected      *)

BulkInsertFailOnErrors ==
    /\ cur.pc = "bulk-insert"
    /\ UNCHANGED <<disk, enoent, req, lastId,
                 other, page, proc>>
    /\ LET task == cur.tasks[cur.i]
           ok == InsertOk(task.title)
           errors == IF ok THEN cur.errors
                     ELSE Append(cur.errors,
                                 [kind |-> "insert", at |-> cur.i])
           \* insertedTasks.push({ ...task, id: result.insertId })
           inserted == IF ok THEN Append(cur.inserted, nextId)
                       ELSE cur.inserted
           last == cur.i = Len(cur.tasks)
       IN
       /\ IF ok
          THEN /\ \E t \in ClockReadings :
                     /\ now' = t
                     /\ store' = (nextId :> NewRow(nextId, cur.user,
                                                   task.title, task.description,
                                                   task.effort_days,
                                                   task.due_date, t))
                                 @@ store
               /\ nextId' = nextId + 1
          ELSE UNCHANGED <<store, nextId, now>>
       /\ cur' = IF last
                 THEN Finished(cur.user, cur.rows, Len(cur.tasks), inserted)
                 ELSE [cur EXCEPT !.i = cur.i + 1, !.errors = errors,
                                  !.inserted = inserted]
       /\ resp' = IF last
                  THEN [Reply(IF errors = <<>> THEN 200 ELSE 400,
                              "Successfully imported", cur.i)
                           EXCEPT !.imported = Len(inserted),
                                  !.errors = errors,
                                  !.errorsKey = ErrorsShown(errors)]
                  ELSE NoResp

(* an insert loop without the try/catch around the INSERT: the first      *)
(* failure ends the loop                                                  *)

BulkInsertStopOnFailure ==
    /\ cur.pc = "bulk-insert"
    /\ UNCHANGED <<disk, enoent, req, lastId,
                 other, page, proc>>
    /\ LET task == cur.tasks[cur.i]
           ok == InsertOk(task.title)
           errors == IF ok THEN cur.errors
                     ELSE Append(cur.errors,
                                 [kind |-> "insert", at |-> cur.i])
           \* insertedTasks.push({ ...task, id: result.insertId })
           inserted == IF ok THEN Append(cur.inserted, nextId)
                       ELSE cur.inserted
           last == cur.i = Len(cur.tasks) \/ ~ok
       IN
       /\ IF ok
          THEN /\ \E t \in ClockReadings :
                     /\ now' = t
                     /\ store' = (nextId :> NewRow(nextId, cur.user,
                                                   task.title, task.description,
                                                   task.effort_days,
                                                   task.due_date, t))
                                 @@ store
               /\ nextId' = nextId + 1
          ELSE UNCHANGED <<store, nextId, now>>
       /\ cur' = IF last
                 THEN Finished(cur.user, cur.rows, Len(cur.tasks), inserted)
                 ELSE [cur EXCEPT !.i = cur.i + 1, !.errors = errors,
                                  !.inserted = inserted]
       /\ resp' = IF last
                  THEN [Reply(200, "Successfully imported", cur.i)
                           EXCEPT !.imported = Len(inserted),
                                  !.errors = errors,
                                  !.errorsKey = ErrorsShown(errors)]
                  ELSE NoResp

(* one iteration of the insert loop; the last one sends the response *)

BulkInsert ==
    /\ cur.pc = "bulk-insert"
    /\ UNCHANGED <<disk, enoent, req, lastId,
                 other, page, proc>>
    /\ LET task == cur.tasks[cur.i]
           ok == InsertOk(task.title)
           errors == IF ok THEN cur.errors
                     ELSE Append(cur.errors,
                                 [kind |-> "insert", at |-> cur.i])
           \* insertedTasks.push({ ...task, id: result.insertId })
           inserted == IF ok THEN Append(cur.inserted, nextId)
                       ELSE cur.inserted
           last == cur.i = Len(cur.tasks)
       IN
       /\ IF ok
          THEN /\ \E t \in ClockReadings :
                     /\ now' = t
                     /\ store' = (nextId :> NewRow(nextId, cur.user,
                                                   task.title, task.description,
                                                   task.effort_days,
                                                   task.due_date, t))
                                 @@ store
               /\ nextId' = nextId + 1
          ELSE UNCHANGED <<store, nextId, now>>
       /\ cur' = IF last
                 THEN Finished(cur.user, cur.rows, Len(cur.tasks), inserted)
                 ELSE [cur EXCEPT !.i = cur.i + 1, !.errors = errors,
                                  !.inserted = inserted]
       /\ resp' = IF last
                  THEN [Reply(200, "Successfully imported", cur.i)
                           EXCEPT !.imported = Len(inserted),
                                  !.errors = errors,
                                  !.errorsKey = ErrorsShown(errors)]
                  ELSE NoResp

-----------------------------------------------------------------------------
(* The server: one request at a time is taken up; a handler suspended at   *)
(* an await runs on to its response                                        *)

Init ==
    /\ store = << >>
    /\ nextId = 1
    /\ disk = {}
    /\ enoent = FALSE
    /\ req = NoRequest
    /\ cur = NoCur
    /\ resp = NoResp
    /\ now = 0
    /\ lastId = MaxId
    /\ other = NoOther
    /\ page = NoPage
    /\ proc = Serving

Receive ==
    /\ Idle
    /\ \/ \E tok \in Tokens : ListTasks(tok)
       \/ \E tok \in Tokens : \E id \in IdsOf(tok) : GetTask(tok, id)
       \/ \E tok \in Tokens : \E body \in BodiesOf(tok, CreateBodies) :
             CreateTask(tok, body)
       \/ \E tok \in Tokens : \E id \in IdsOf(tok) :
             \E body \in BodiesOf(tok, UpdateBodies) : PutCheck(tok, id, body)
       \/ \E tok \in Tokens : \E id \in IdsOf(tok) : DeleteTask(tok, id)
       \/ \E tok \in Tokens : ExportTasks(tok)
       \/ \E tok \in Tokens, mimetype \in MimeTypes :
             BulkUpload(tok, mimetype, SizeOf(mimetype))

Next ==
    \/ Receive
    \/ PutUpdate
    \/ PutReread
    \/ \E content \in ContentsOf(req.mimetype) : BulkParse(content)
    \/ BulkInsert

Spec == Init /\ [][Next]_vars

-----------------------------------------------------------------------------
(* Vocabulary of the properties *)

\* the user the last request was made as
Caller == authenticateToken(req.token)

Authenticated == Caller # Unauthorized

\* the response to req has been sent
Answered == resp.status # 0

\* the step takes a request up (the handler was idle before it)
Received == Idle /\ req'.op # "none"

\* after the step, the caller of the request being handled
CallerNext == authenticateToken(req'.token)

\* the request names a task that exists and belongs to someone else
ForeignTarget(r, s) ==
    /\ r.op \in {"get", "put", "delete"}
    /\ authenticateToken(r.token) # Unauthorized
    /\ r.id \in DOMAIN s
    /\ s[r.id].user_id # authenticateToken(r.token)

\* a task of another user is the same row before and after the step
OthersUntouched ==
    \A id \in DOMAIN store :
        store[id].user_id # CallerNext
            => id \in DOMAIN store' /\ store'[id] = store[id]

HasError(r, param) == \E i \in 1 .. Len(r.errors) : r.errors[i].param = param

\* the fields of a body that the claims call invalid
EffortBelowOne(body) == body.effort_days = "0"
EmptyTitle(body) == body.title = ""
NotIsoDate(body) == body.due_date = BadDate

-----------------------------------------------------------------------------
(* C1: a GET, PUT or DELETE by one user on a task of another user answers  *)
(* 404 and leaves that task as it was.  This is the claim as stated; the   *)
(* PUT chain validates the body before the ownership SELECT.               *)
C1_ForeignAlways404 ==
    [][ /\ OthersUntouched
        /\ (Received /\ ForeignTarget(req', store)) => resp'.status = 404
      ]_vars

(* C1 as amended: on a task of another user, GET and DELETE answer 404 and *)
(* PUT answers 404, or 400 when its body fails validation; no step of a    *)
(* request changes or removes a task its caller does not own.              *)
C1_ForeignNeverServed ==
    [][ /\ OthersUntouched
        /\ (Received /\ ForeignTarget(req', store))
              => \/ resp'.status = 404
                 \/ /\ req'.op = "put"
                    /\ UpdateErrors(req'.body) # <<>>
                    /\ resp'.status = 400
      ]_vars

\* bob's well-formed PUT on a task of alice was answered 404
C1_Witness ==
    /\ req.op = "put"
    /\ Caller = "bob"
    /\ UpdateErrors(req.body) = <<>>
    /\ req.id \in DOMAIN store
    /\ store[req.id].user_id = "alice"
    /\ resp.status = 404

(* C2: a request whose token is absent, malformed or expired is answered   *)
(* unauthorized before its handler does anything: no query is issued, the  *)
(* table is as before, and bulk-upload stores and parses no file.          *)
C2_AuthenticationFirst ==
    [][ (Received /\ CallerNext = Unauthorized)
            => /\ resp'.status = 401
               /\ resp'.queries = 0
               /\ cur' = NoCur
               /\ UNCHANGED <<store, nextId, disk, enoent>>
      ]_vars

\* a bulk upload of a CSV file under an expired token was turned away
C2_Witness ==
    /\ req.op = "bulk"
    /\ req.token = "tok-expired"
    /\ req.mimetype = CSV
    /\ resp.status = 401
    /\ disk = {}

\* the task of the response agrees with the body on title, description and
\* effort, is pending, belongs to the caller and is what get-one returns
CreatedAsSent(t, b) ==
    /\ t.title = b.title
    /\ \/ t.description = b.description
       \/ b.description = Undefined /\ t.description = ""
    /\ \/ b.effort_days = "1" /\ t.effort_days = 1
       \/ b.effort_days = "2" /\ t.effort_days = 2
    /\ t.status = "pending"
    /\ t.user_id = Caller
    /\ OwnedBy(t.id, Caller)
    /\ JsonTask(store[t.id]) = t

(* C3: the task in a 201 response has title, description, effort_days and  *)
(* due_date equal to the body, is pending, belongs to the caller and can   *)
(* be fetched by the caller.  This is the claim as stated; the DATE column *)
(* keeps the date of a date-time and is answered as a midnight timestamp.  *)
C3_CreatedEqualsInput ==
    (req.op = "create" /\ resp.status = 201)
        => /\ CreatedAsSent(resp.task, req.body)
           /\ resp.task.due_date = req.body.due_date

(* C3 as amended: as above, with due_date the midnight timestamp of the    *)
(* calendar date of the due_date sent.                                     *)
C3_CreatedMatchesInput ==
    (req.op = "create" /\ resp.status = 201)
        => /\ CreatedAsSent(resp.task, req.body)
           /\ req.body.due_date \in {D1, D1T}
           /\ resp.task.due_date = D1Json
           /\ store[resp.task.id].due_date = D1

\* a task was created from a body with a description and a date-time due
C3_Witness ==
    /\ req.op = "create"
    /\ resp.status = 201
    /\ req.body.description = "d"
    /\ req.body.due_date = D1T
    /\ resp.task.id \in DOMAIN store

(* C4: POST / without effort_days is accepted and the task gets effort 1.  *)
(* This is the claim as stated.                                            *)
C4_AbsentEffortDefaults ==
    ( /\ req.op = "create"
      /\ Authenticated
      /\ req.body.effort_days = Undefined
      /\ ~EmptyTitle(req.body)
      /\ ~NotIsoDate(req.body) )
        => resp.status = 201 /\ resp.task.effort_days = 1

(* C4 as amended: POST / without effort_days is rejected with 400 and an   *)
(* error for effort_days, and no task is created.                          *)
C4_AbsentEffortRejected ==
    [][ ( /\ Received
          /\ req'.op = "create"
          /\ CallerNext # Unauthorized
          /\ req'.body.effort_days = Undefined )
            => /\ resp'.status = 400
               /\ HasError(resp', "effort_days")
               /\ UNCHANGED <<store, nextId>>
      ]_vars

\* a POST without effort_days, otherwise valid, was answered 400
C4_Witness ==
    /\ req.op = "create"
    /\ Authenticated
    /\ req.body.effort_days = Undefined
    /\ ~EmptyTitle(req.body)
    /\ ~NotIsoDate(req.body)
    /\ resp.status = 400

(* C5: POST / and PUT /:id with effort below 1, an empty title or a        *)
(* due_date that is no ISO date answer 400 with an error entry for each    *)
(* such field, and the table is left as it was.                            *)
C5_InvalidBodyRejected ==
    [][ ( /\ Received
          /\ req'.op \in {"create", "put"}
          /\ CallerNext # Unauthorized
          /\ \/ EffortBelowOne(req'.body)
             \/ EmptyTitle(req'.body)
             \/ NotIsoDate(req'.body) )
            => /\ resp'.status = 400
               /\ EffortBelowOne(req'.body) => HasError(resp', "effort_days")
               /\ EmptyTitle(req'.body) => HasError(resp', "title")
               /\ NotIsoDate(req'.body) => HasError(resp', "due_date")
               /\ cur' = NoCur
               /\ UNCHANGED <<store, nextId>>
      ]_vars

\* a PUT on a task of the caller with effort 0 was answered 400
C5_Witness ==
    /\ req.op = "put"
    /\ Authenticated
    /\ OwnedBy(req.id, Caller)
    /\ EffortBelowOne(req.body)
    /\ ~EmptyTitle(req.body)
    /\ resp.status = 400
    /\ HasError(resp, "effort_days")

(* C6: every stored task has a non-empty title, an integer effort_days of  *)
(* at least 1 and a status among pending, in_progress, completed.  The CSV *)
(* row handler takes parseInt("0") = 0 as a number and the INSERT stores   *)
(* it.                                                                     *)
C6_StoredTasksWellFormed ==
    \A id \in DOMAIN store :
        /\ store[id].title # ""
        /\ store[id].effort_days \in Int
        /\ store[id].effort_days >= 1
        /\ store[id].status \in Statuses

\* the ids pushed to insertedTasks
InsertedIds(c) == {c.inserted[k] : k \in 1 .. Len(c.inserted)}

\* the errors pushed by the row handler, one per row it turned down
RowErrors(errors) ==
    {k \in 1 .. Len(errors) : errors[k].kind \in {"invalid", "exception"}}

\* the errors pushed by the insert loop, one per INSERT that failed
InsertErrors(errors) == {k \in 1 .. Len(errors) : errors[k].kind = "insert"}

\* the bulk upload has been answered after its rows were parsed
BulkAnswered == req.op = "bulk" /\ cur.pc = "done"

C8_NoValidRowsNoWrites ==
    [][ (cur.pc = "bulk-parse" /\ cur'.pc # "idle")
            => IF cur'.pc = "bulk-insert"
               THEN cur'.tasks # <<>> /\ resp'.status = 0
               ELSE /\ cur'.candidates = 0
                    /\ resp'.status = 400
                    /\ resp'.message = "No valid tasks found in the file"
                    /\ Len(resp'.errors) = cur'.rows
                    /\ resp'.queries = 0
                    /\ UNCHANGED <<store, nextId>>
      ]_vars

\* a file of two rows, neither of them valid, was answered 400
C8_Witness ==
    /\ BulkAnswered
    /\ resp.status = 400
    /\ cur.rows = 2
    /\ Len(resp.errors) = 2

(* C9: a bulk upload whose content type is neither CSV nor one of the two  *)
(* spreadsheet types is answered 400 by the file filter: the handler body  *)
(* is not entered, nothing is stored on disk or parsed, no query is made.  *)
C9_UnsupportedTypeRejected ==
    [][ ( /\ Received
          /\ req'.op = "bulk"
          /\ CallerNext # Unauthorized
          /\ req'.mimetype \notin {Undefined, CSV, XLSX, XLS} )
            => /\ resp'.status = 400
               /\ resp'.message
                    = "Invalid file type. Only Excel and CSV files are allowed."
               /\ resp'.queries = 0
               /\ cur' = NoCur
               /\ UNCHANGED <<store, nextId, disk>>
      ]_vars

\* a PDF upload by an authenticated user was answered 400
C9_Witness ==
    /\ req.op = "bulk"
    /\ Authenticated
    /\ req.mimetype = PDF
    /\ resp.status = 400
    /\ cur = NoCur

(* C10: once a bulk upload has been answered, on whichever path, its       *)
(* temporary file is gone, and no unlink was ever tried on a missing file. *)
C10_TempFileRemoved ==
    /\ (req.op = "bulk" /\ Answered) => disk = {}
    /\ ~enoent

\* a bulk upload whose file could not be read was answered 500 from the
\* catch block
C10_Witness ==
    /\ req.op = "bulk"
    /\ resp.status = 500
    /\ disk = {}

(* C11: the insert loop issues one INSERT per candidate, in order and      *)
(* under the caller's id; a failed INSERT adds one error and the loop goes *)
(* on with the next candidate.                                             *)
C11_EveryCandidateAttempted ==
    [][ cur.pc = "bulk-insert"
          => LET task == cur.tasks[cur.i]
                 new == DOMAIN store' \ DOMAIN store
             IN /\ cur.i <= Len(cur.tasks)
                /\ \/ /\ new = {nextId}
                      /\ store'[nextId].user_id = Caller
                      /\ store'[nextId].title = task.title
                   \/ /\ new = {}
                      /\ \/ /\ cur'.pc = "bulk-insert"
                            /\ cur'.errors
                                 = Append(cur.errors,
                                          [kind |-> "insert", at |-> cur.i])
                         \/ /\ cur'.pc = "done"
                            /\ resp'.errors
                                 = Append(cur.errors,
                                          [kind |-> "insert", at |-> cur.i])
                /\ IF cur.i < Len(cur.tasks)
                   THEN /\ cur'.pc = "bulk-insert"
                        /\ cur'.i = cur.i + 1
                        /\ cur'.tasks = cur.tasks
                        /\ resp'.status = 0
                   ELSE /\ cur'.pc = "done"
                        /\ cur'.candidates = Len(cur.tasks)
                        /\ resp'.queries = Len(cur.tasks)
      ]_vars

\* the INSERT of the first of two candidates failed and the second
\* candidate was inserted all the same
C11_Witness ==
    /\ BulkAnswered
    /\ cur.candidates = 2
    /\ resp.errors = <<[kind |-> "insert", at |-> 1]>>
    /\ Len(cur.inserted) = 1
    /\ resp.queries = 2

(* C12: the success response of a bulk import reports as imported the     *)
(* number of rows the request inserted, and carries the errors key exactly *)
(* when at least one error was collected.                                  *)
C12_ImportedCountAndErrorsKey ==
    (BulkAnswered /\ resp.status = 200)
        => /\ InsertedIds(cur) \subseteq DOMAIN store
           /\ \A id \in InsertedIds(cur) : store[id].user_id = Caller
           /\ resp.imported = Cardinality(InsertedIds(cur))
           /\ resp.errorsKey <=> (resp.errors # <<>>)
           /\ Len(resp.errors) = cur.rows - resp.imported

\* a clean import: one row inserted, no error collected, no errors key
C12_Witness ==
    /\ BulkAnswered
    /\ resp.status = 200
    /\ resp.imported = 1
    /\ resp.errors = <<>>
    /\ ~resp.errorsKey

-----------------------------------------------------------------------------
(* Export followed by import of the exported worksheet: the run starts    *)
(* from a table that earlier requests have filled                         *)

MaxTasks == 2

\* rows of the table: a complete pending task, a completed task without
\* description (after a PUT), a task imported from a CSV row with effort 0,
\* and a task of the other user
SheetSamples ==
    { [user_id |-> "alice", description |-> "d", effort_days |-> 2,
       status |-> "pending"],
      [user_id |-> "alice", description |-> "", effort_days |-> 2,
       status |-> "completed"],
      [user_id |-> "alice", description |-> "d", effort_days |-> 0,
       status |-> "pending"],
      [user_id |-> "bob", description |-> "d", effort_days |-> 2,
       status |-> "pending"] }

\* created_at of rows 1 .. n: whole seconds that never decrease with the id
Stamps(n) ==
    {c \in [1 .. n -> 0 .. (n - 1)] :
        /\ n >= 1 => c[1] = 0
        /\ \A k \in 1 .. (n - 1) : c[k + 1] \in {c[k], c[k] + 1}}

SheetStores ==
    UNION {{[k \in 1 .. n |->
               [NewRow(k, f[k].user_id, "A", f[k].description,
                       f[k].effort_days, D1, c[k])
                   EXCEPT !.status = f[k].status]] :
              f \in [1 .. n -> SheetSamples], c \in Stamps(n)} :
           n \in 0 .. MaxTasks}

InitSheet ==
    /\ store \in SheetStores
    /\ nextId = Len(store) + 1
    /\ lastId = Len(store) + MaxTasks
    /\ other = NoOther
    /\ page = NoPage
    /\ proc = Serving
    /\ now = IF store = <<>> THEN 0 ELSE store[Len(store)].created_at
    /\ disk = {}
    /\ enoent = FALSE
    /\ req = NoRequest
    /\ cur = NoCur
    /\ resp = NoResp

\* a worksheet that writes no description cell
SheetCellsNoDescription(r) ==
    [title |-> r.title, description |-> "",
     effort |-> CHOOSE d \in {"0", "1", "2"} : Digits(d).n = r.effort_days,
     due |-> JsonDate(r.due_date),
     status |-> r.status, created |-> r.created_at]

\* the cells of one data row of the exported worksheet, as the import
\* reads them: effort_days is a number cell, which parseInt reads through
\* its decimal text, due_date is the Date mysql2 returned for the column
SheetCells(r) ==
    [title |-> r.title, description |-> r.description,
     effort |-> CHOOSE d \in {"0", "1", "2"} : Digits(d).n = r.effort_days,
     due |-> JsonDate(r.due_date),
     status |-> r.status, created |-> r.created_at]

\* the worksheets GET /export/excel may send to the user
ExportedFiles(user) ==
    {[header |-> ExportHeader,
      rows |-> [k \in 1 .. Len(tasks) |-> SheetCells(ExportRow(tasks[k]))],
      readable |-> TRUE] : tasks \in TasksOf(user)}

\* the user uploads the workbook the export has just sent
ReUpload ==
    /\ req.op = "export"
    /\ resp.status = 200
    /\ BulkUpload(req.token, XLSX, SmallFile)

NextSheet ==
    \/ cur.pc = "idle" /\ \E tok \in Tokens : ListTasks(tok)
    \/ cur.pc = "idle" /\ \E tok \in Tokens : ExportTasks(tok)
    \/ cur.pc = "idle" /\ ReUpload
    \/ \E content \in ExportedFiles(Caller) : BulkParse(content)
    \/ BulkInsert

SpecSheet == InitSheet /\ [][NextSheet]_vars

\* the caller's rows that were in the table before the import answered
RowsBefore == {i \in DOMAIN store : store[i].user_id = Caller} \ InsertedIds(cur)

\* the task the import stores for row o of the worksheet, field by field
SameTask(n, o, effort, status) ==
    /\ n.user_id = Caller
    /\ n.title = o.title
    /\ n.description = o.description
    /\ n.due_date = o.due_date
    /\ n.effort_days = effort
    /\ n.status = status

(* C13: importing the exported worksheet stores one new task per exported  *)
(* task with the same title, description, effort, due date and status.     *)
C13_RoundTripKeepsAll ==
    (BulkAnswered /\ resp.status = 200)
        => \E old \in Orders(RowsBefore) :
              /\ Len(old) = Len(cur.inserted)
              /\ \A k \in 1 .. Len(old) :
                    SameTask(store[cur.inserted[k]], old[k],
                             old[k].effort_days, old[k].status)

(* C13, as the code has it: the new task has the same title, description   *)
(* and due date; its effort is the exported one, or 1 where that was 0;    *)
(* its status is pending whatever the exported status was.                 *)
C13_RoundTripKeepsFourColumns ==
    (BulkAnswered /\ resp.status = 200)
        => \E old \in Orders(RowsBefore) :
              /\ Len(old) = Len(cur.inserted)
              /\ \A k \in 1 .. Len(old) :
                    SameTask(store[cur.inserted[k]], old[k],
                             IF old[k].effort_days = 0 THEN 1
                             ELSE old[k].effort_days,
                             "pending")

\* two tasks went through the round trip, one of them completed and one
\* with a description
C13_Witness ==
    /\ BulkAnswered
    /\ resp.status = 200
    /\ Len(cur.inserted) = 2
    /\ \E i, j \in RowsBefore : /\ store[i].status = "completed"
                                /\ store[j].description = "d"

-----------------------------------------------------------------------------
(* The row handlers of the two formats, applied to the same data rows     *)

UpperHeader == <<"TITLE", "DESCRIPTION", "EFFORT_DAYS", "DUE_DATE">>
EffortUpperHeader == <<"title", "description", "EFFORT_DAYS", "due_date">>
\* a first line that looks like a data row
DataAsHeader == <<"A", "", "2", "2024-12-31">>
RowHeaders == Headers \cup {UpperHeader, EffortUpperHeader, DataAsHeader}

AllRowSamples ==
    { Cells("A", "2", D1),          \* complete row
      Cells("A", "", D1),           \* effort absent
      Cells("A", "abc", D1),        \* effort not a number
      Cells("A", "0", D1),          \* effort zero
      Cells("A", "2", ""),          \* due date absent
      Cells("A", "2", BadDate),     \* due date not a date
      Cells("", "2", D1),           \* title absent
      Cells("", "", "") }           \* no cell has a value

NothingRead == [tasks |-> <<>>, errors |-> <<>>]

InitRows ==
    /\ store = << >>
    /\ nextId = 1
    /\ disk = {}
    /\ enoent = FALSE
    /\ req = NoRequest
    /\ resp = NoResp
    /\ now = 0
    /\ lastId = MaxId
    /\ other = NoOther
    /\ page = NoPage
    /\ proc = Serving
    /\ \E header \in RowHeaders, rows \in SeqsUpTo(AllRowSamples, MaxRows) :
          cur = [pc |-> "rows", header |-> header, rows |-> rows,
                 read |-> {}, csv |-> NothingRead, xlsx |-> NothingRead]

\* the 'data' handler of the CSV stream, run over the rows
ReadCsv ==
    /\ cur.pc = "rows"
    /\ CSV \notin cur.read
    /\ cur' = [cur EXCEPT !.read = @ \cup {CSV},
                          !.csv = ParseRows(CSV, cur.header, cur.rows,
                                            Len(cur.rows))]
    /\ UNCHANGED <<store, nextId, disk, enoent, req, resp, now, lastId,
                 other, page, proc>>

\* the eachRow callback of the worksheet, run over the rows
ReadXlsx ==
    /\ cur.pc = "rows"
    /\ XLSX \notin cur.read
    /\ cur' = [cur EXCEPT !.read = @ \cup {XLSX},
                          !.xlsx = ParseRows(XLSX, cur.header, cur.rows,
                                             Len(cur.rows))]
    /\ UNCHANGED <<store, nextId, disk, enoent, req, resp, now, lastId,
                 other, page, proc>>

NextRows == ReadCsv \/ ReadXlsx

SpecRows == InitRows /\ [][NextRows]_vars

\* both handlers have run over the rows
BothRead == cur.pc = "rows" /\ cur.read = {CSV, XLSX}

\* the errors a handler collected for data row k
ErrorsAt(res, mimetype, k) ==
    {e \in 1 .. Len(res.errors) : res.errors[e].at = RowLabel(mimetype, k)}

\* data row k became a candidate with this effort
AcceptedWith(res, mimetype, k, effort) ==
    LET before == {j \in 1 .. (k - 1) : ErrorsAt(res, mimetype, j) # {}}
        at == k - Cardinality(before)
    IN /\ ErrorsAt(res, mimetype, k) = {}
       /\ at \in 1 .. Len(res.tasks)
       /\ res.tasks[at].effort_days = effort

\* exactly one error for data row k, and one outcome for every row
RejectedOnce(res, mimetype, k) ==
    /\ Cardinality(ErrorsAt(res, mimetype, k)) = 1
    /\ Len(res.tasks) + Len(res.errors) = Len(cur.rows)

(* C14: a row with a title and a valid due date whose effort is absent or  *)
(* not a number is accepted with effort 1 by the CSV handler and by the    *)
(* spreadsheet handler alike.                                              *)
C14_EffortDefaultsInBothPaths ==
    (BothRead /\ cur.header \in Headers)
        => \A k \in 1 .. Len(cur.rows) :
              (/\ cur.rows[k].title # ""
               /\ ValidDate(cur.rows[k].due)
               /\ ~Digits(cur.rows[k].effort).ok)
                  => /\ AcceptedWith(cur.csv, CSV, k, 1)
                     /\ AcceptedWith(cur.xlsx, XLSX, k, 1)

(* C15: a row whose due date is absent or not a date is rejected with      *)
(* exactly one error, in both formats, and the other rows are still        *)
(* processed.                                                              *)
C15_BadDueDateRejected ==
    (BothRead /\ cur.header \in Headers)
        => \A k \in 1 .. Len(cur.rows) :
              ~ValidDate(cur.rows[k].due)
                  => /\ RejectedOnce(cur.csv, CSV, k)
                     /\ RejectedOnce(cur.xlsx, XLSX, k)

\* the rows with the cells of the columns whose header is none of the
\* names the handler reads taken as absent
Recognised(header) ==
    [k \in 1 .. 4 |-> header[k] \in {LowerHeader[k], ExportHeader[k]}]

Blanked(rows, header) ==
    LET known == Recognised(header) IN
    [k \in 1 .. Len(rows) |->
        [title |-> IF known[1] THEN rows[k].title ELSE "",
         description |-> IF known[2] THEN rows[k].description ELSE "",
         effort |-> IF known[3] THEN rows[k].effort ELSE "",
         due |-> IF known[4] THEN rows[k].due ELSE ""]]

(* C16: a CSV file gives the same result whatever the letter case of its   *)
(* header names.                                                           *)
C16_HeaderCaseIgnored ==
    (cur.pc = "rows" /\ CSV \in cur.read)
        => cur.csv = ParseRows(CSV, LowerHeader, cur.rows, Len(cur.rows))

(* C16, as the code has it: a column is read under the names title/Title,  *)
(* description/Description, effort_days/Effort (Days) and due_date/Due     *)
(* Date exactly as spelt here; a column under any other spelling is read   *)
(* as if its cells were absent.                                            *)
C16_HeaderSpellingsExact ==
    (cur.pc = "rows" /\ CSV \in cur.read)
        => cur.csv = ParseRows(CSV, LowerHeader,
                               Blanked(cur.rows, cur.header), Len(cur.rows))

\* a complete row under upper-case header names was rejected
C16_Witness ==
    /\ cur.pc = "rows"
    /\ CSV \in cur.read
    /\ cur.header = UpperHeader
    /\ cur.rows = <<Cells("A", "2", D1)>>
    /\ cur.csv.tasks = <<>>
    /\ Len(cur.csv.errors) = 1

\* GET / or GET /export/excel was answered with the caller's tasks
Listed == req.op \in {"list", "export"} /\ resp.status = 200

\* a row of the table as the answered request shows it
Shown(t) == IF req.op = "list" THEN JsonTask(t) ELSE ExportRow(t)

OwnIds == {i \in DOMAIN store : store[i].user_id = Caller}

\* the rows with these ids, the one created last first
RECURSIVE LatestFirst(_)
LatestFirst(ids) ==
    IF ids = {} THEN <<>>
    ELSE LET last == CHOOSE m \in ids : \A i \in ids : i <= m
         IN <<store[last]>> \o LatestFirst(ids \ {last})

\* the response holds each of the caller's rows as often as the table
\* does, and nothing else
ExactlyOwnTasks ==
    /\ Len(resp.tasks) = Cardinality(OwnIds)
    /\ \A k \in 1 .. Len(resp.tasks) :
          \E i \in OwnIds : resp.tasks[k] = Shown(store[i])
    /\ \A i \in OwnIds :
          Cardinality({k \in 1 .. Len(resp.tasks) :
                          resp.tasks[k] = Shown(store[i])})
            = Cardinality({j \in OwnIds : Shown(store[j]) = Shown(store[i])})

(* C17: the list and the export hold exactly the caller's tasks, a task    *)
(* created later before every task created earlier.                        *)
C17_OwnTasksNewestFirst ==
    Listed => /\ ExactlyOwnTasks
              /\ resp.tasks = [k \in 1 .. Cardinality(OwnIds) |->
                                 Shown(LatestFirst(OwnIds)[k])]

(* C17, as the code has it: the list and the export hold exactly the       *)
(* caller's tasks in descending order of created_at, a time in whole       *)
(* seconds; tasks created within the same second come in any order.        *)
C17_OwnTasksByCreatedAt ==
    Listed => /\ ExactlyOwnTasks
              /\ \A k \in 1 .. (Len(resp.tasks) - 1) :
                    resp.tasks[k].created_at >= resp.tasks[k + 1].created_at

\* two tasks of the caller created within one second were listed, the
\* one created first at the top
C17_Witness ==
    /\ Listed
    /\ req.op = "list"
    /\ Len(resp.tasks) = 2
    /\ resp.tasks[1].created_at = resp.tasks[2].created_at
    /\ resp.tasks[1].id < resp.tasks[2].id

\* the request of an authenticated user names a task id the table does not
\* hold
MissingTarget(r, table) ==
    /\ r.op \in {"get", "put", "delete"}
    /\ authenticateToken(r.token) # Unauthorized
    /\ r.id \notin DOMAIN table

(* C18: a GET, PUT or DELETE on a task id that does not exist answers 404  *)
(* and leaves the table unchanged.                                         *)
C18_MissingAlways404 ==
    [][ (Received /\ MissingTarget(req', store))
            => /\ resp'.status = 404
               /\ store' = store
      ]_vars

(* C18, as the code has it: on a task id that does not exist GET and       *)
(* DELETE answer 404, PUT answers 404, or 400 when its body fails          *)
(* validation; the request ends there and the table is unchanged.          *)
C18_MissingNeverServed ==
    [][ (Received /\ MissingTarget(req', store))
            => /\ store' = store
               /\ cur'.pc = "idle"
               /\ IF req'.op = "put" /\ UpdateErrors(req'.body) # <<>>
                  THEN resp'.status = 400
                  ELSE resp'.status = 404
      ]_vars

\* the second DELETE of a task that was created and deleted was answered
\* 404
C18_Witness ==
    /\ req.op = "delete"
    /\ Authenticated
    /\ req.id < nextId
    /\ req.id \notin DOMAIN store
    /\ resp.status = 404
    /\ resp.queries = 1

-----------------------------------------------------------------------------
(* Uploads of files on either side of the size the upload dialog names    *)

FileSizes == {SmallFile, LargeFile}

UploadOfSize ==
    /\ Idle
    /\ \E tok \in Tokens, mimetype \in MimeTypes, size \in FileSizes :
          BulkUpload(tok, mimetype,
                     IF mimetype = Undefined THEN Undefined ELSE size)

NextUpload ==
    \/ UploadOfSize
    \/ \E content \in ContentsOf(req.mimetype) : BulkParse(content)
    \/ BulkInsert

SpecUpload == Init /\ [][NextUpload]_vars

(* C19: an upload of a file of an allowed type that is larger than 10MB   *)
(* is answered 400 'File too large' and none of its rows is imported.      *)
C19_LargeFileRejected ==
    (/\ req.op = "bulk"
     /\ req.size = LargeFile
     /\ req.mimetype \in AllowedTypes
     /\ Authenticated
     /\ Answered)
        => /\ resp.status = 400
           /\ resp.message = "File too large"
           /\ ~(cur.pc = "done" /\ cur.inserted # <<>>)

(* C20: once a row of the file has been inserted the bulk import answers   *)
(* with a success that carries the number of rows imported and every       *)
(* error collected, however many rows failed.                              *)
C20_PartialImportSucceeds ==
    (req.op = "bulk" /\ cur.pc \in {"bulk-insert", "done"}
                     /\ cur.inserted # <<>>)
        => /\ resp.status \in {0, 200}
           /\ Answered
                => /\ resp.imported = Len(cur.inserted)
                   /\ resp.imported >= 1
                   /\ Len(resp.errors) = cur.rows - resp.imported
                   /\ resp.errorsKey <=> (resp.errors # <<>>)

\* a worksheet whose first data row was refused and whose second was
\* imported
C20_Witness ==
    /\ BulkAnswered
    /\ req.mimetype = XLSX
    /\ resp.status = 200
    /\ resp.imported = 1
    /\ resp.errors = <<[kind |-> "invalid", at |-> 2]>>

-----------------------------------------------------------------------------
(* Requests that arrive while a handler is suspended at an await: the     *)
(* handler of req goes on step by step, the others are handled in between *)

Peers == {"tok-alice", "tok-bob"}

\* the table holds one task, of alice; the run explored has one request
\* whose handler awaits several queries
FirstNewId == 2

InitConc ==
    /\ store = (1 :> [NewRow(1, "alice", "A", "d", 2, D1, 0)
                         EXCEPT !.status = "completed"])
    /\ nextId = FirstNewId
    /\ lastId = 1 + MaxRows
    /\ now = 0
    /\ disk = {}
    /\ enoent = FALSE
    /\ req = NoRequest
    /\ cur = NoCur
    /\ resp = NoResp
    /\ other = NoOther
    /\ page = NoPage
    /\ proc = Serving

Suspended == cur.pc \in {"put-update", "put-reread", "bulk-parse", "bulk-insert"}

\* router.get('/') for another request
ConcurrentList(tok) ==
    /\ Suspended
    /\ \E tasks \in TasksOf(authenticateToken(tok)) :
          other' = [op |-> "list", token |-> tok, id |-> 0, status |-> 200,
                    tasks |-> [i \in 1 .. Len(tasks) |-> JsonTask(tasks[i])]]
    /\ UNCHANGED <<store, nextId, disk, enoent, req, cur, resp, now, lastId,
                   page, proc>>

\* router.delete('/:id') for another request
ConcurrentDelete(tok, id) ==
    LET u == authenticateToken(tok) IN
    /\ Suspended
    /\ IF OwnedBy(id, u)
       THEN /\ store' = Without(id)
            /\ other' = [NoOther EXCEPT !.op = "delete", !.token = tok,
                                        !.id = id, !.status = 200]
       ELSE /\ UNCHANGED store
            /\ other' = [NoOther EXCEPT !.op = "delete", !.token = tok,
                                        !.id = id, !.status = 404]
    /\ UNCHANGED <<nextId, disk, enoent, req, cur, resp, now, lastId,
                   page, proc>>

\* the request whose handler is followed: a PUT on task 1 or an upload
StartPut ==
    /\ req.op = "none"
    /\ \E tok \in Peers, body \in UpdateBodies : PutCheck(tok, 1, body)

StartBulk ==
    /\ req.op = "none"
    /\ \E tok \in Peers : BulkUpload(tok, CSV, SmallFile)

NextConc ==
    \/ StartPut
    \/ StartBulk
    \/ PutUpdate
    \/ PutReread
    \/ \E content \in {c \in ContentsOf(CSV) : c.header = LowerHeader} :
          BulkParse(content)
    \/ BulkInsert
    \/ \E tok \in Peers : ConcurrentList(tok)
    \/ \E tok \in Peers, id \in 1 .. lastId : ConcurrentDelete(tok, id)

SpecConc == InitConc /\ [][NextConc]_vars

\* the candidates among the first n whose INSERT succeeds
RECURSIVE Insertable(_, _)
Insertable(tasks, n) ==
    IF n = 0 THEN <<>>
    ELSE IF InsertOk(tasks[n].title)
         THEN Append(Insertable(tasks, n - 1), tasks[n])
         ELSE Insertable(tasks, n - 1)

\* the rows of the batch in the table are rows of the candidates before
\* the one the loop is at, in their order
BatchIsPrefix ==
    cur.pc = "bulk-insert"
        => LET done == Insertable(cur.tasks, cur.i - 1) IN
           /\ Len(cur.inserted) = Len(done)
           /\ {id \in DOMAIN store : id >= FirstNewId}
                 \subseteq InsertedIds(cur)
           /\ \A k \in 1 .. Len(cur.inserted) :
                 /\ k > 1 => cur.inserted[k - 1] < cur.inserted[k]
                 /\ cur.inserted[k] \in DOMAIN store
                       => /\ store[cur.inserted[k]].title = done[k].title
                          /\ store[cur.inserted[k]].effort_days
                                = done[k].effort_days
                          /\ store[cur.inserted[k]].user_id = Caller

(* C21: the insert loop issues one INSERT at a time in file order and      *)
(* never takes back a row: a step of the loop adds at most the row of the  *)
(* candidate it is at and leaves every other row as it was, also when its  *)
(* INSERT fails; in between, the rows of the batch in the table are those  *)
(* of candidates already processed, and a concurrent GET may see them.     *)
C21_SequentialNoRollback ==
    [][ /\ BatchIsPrefix
        /\ (cur.pc = "bulk-insert" /\ cur' # cur)
              => /\ \A id \in DOMAIN store :
                       id \in DOMAIN store' /\ store'[id] = store[id]
                 /\ DOMAIN store' \ DOMAIN store \subseteq {nextId}
                 /\ cur'.pc = "bulk-insert" => cur'.i = cur.i + 1
      ]_vars

\* a GET /tasks of the importing user, handled during the import, listed
\* the first row of the batch; the INSERT of the second then failed and
\* the first row stayed
C21_Witness ==
    /\ BulkAnswered
    /\ resp.imported = 1
    /\ resp.errors = <<[kind |-> "insert", at |-> 2]>>
    /\ FirstNewId \in DOMAIN store
    /\ other.op = "list"
    /\ other.token = req.token
    /\ \E k \in 1 .. Len(other.tasks) : other.tasks[k].id = FirstNewId

(* C22: a PUT that answers 200 carries the task as that request wrote it, *)
(* whatever other requests are handled between its queries.                *)
C22_PutAnswersWrittenTask ==
    (req.op = "put" /\ resp.status = 200)
        => /\ resp.task # NoTask
           /\ resp.task.id = req.id
           /\ resp.task.user_id = Caller
           /\ resp.task.title = req.body.title
           /\ resp.task.description = OrEmpty(req.body.description)
           /\ resp.task.effort_days = Digits(req.body.effort_days).n
           /\ resp.task.status = OrPending(req.body.status)

(* C23: the UPDATE of a PUT whose body omits status sets the status of the *)
(* task to pending whatever it was, and the UPDATE of a PUT whose body     *)
(* omits description sets the description to the empty string.             *)
C23_OmittedFieldsReset ==
    [][ (/\ cur.pc = "put-update"
         /\ cur'.pc = "put-reread"
         /\ req.id \in DOMAIN store
         /\ store[req.id].user_id = Caller)
            => /\ req.id \in DOMAIN store'
               /\ req.body.status = Undefined
                     => store'[req.id].status = "pending"
               /\ req.body.status # Undefined
                     => store'[req.id].status = req.body.status
               /\ req.body.description = Undefined
                     => store'[req.id].description = ""
               /\ req.body.description # Undefined
                     => store'[req.id].description = req.body.description
      ]_vars

\* the completed task with a description, after a PUT without status and
\* description and no other request in between
C23_Witness ==
    /\ req.op = "put"
    /\ resp.status = 200
    /\ req.body.status = Undefined
    /\ req.body.description = Undefined
    /\ other = NoOther
    /\ store[1].status = "pending"
    /\ store[1].description = ""
    /\ resp.task.status = "pending"

-----------------------------------------------------------------------------
(* Reads, updates and deletes on a table that holds several tasks         *)

FrameBodies ==
    {BaseBody,
     [BaseBody EXCEPT !.description = Undefined, !.status = "completed"],
     [BaseBody EXCEPT !.title = LongTitle],
     [BaseBody EXCEPT !.effort_days = "0"]}

ReceiveFrame ==
    /\ Idle
    /\ \/ \E tok \in Tokens : ListTasks(tok)
       \/ \E tok \in Tokens : \E id \in 1 .. MaxTasks : GetTask(tok, id)
       \/ \E tok \in Tokens : ExportTasks(tok)
       \/ \E tok \in Tokens : \E id \in 1 .. MaxTasks :
             \E body \in BodiesOf(tok, FrameBodies) : PutCheck(tok, id, body)
       \/ \E tok \in Tokens : \E id \in 1 .. MaxTasks : DeleteTask(tok, id)

NextFrame == ReceiveFrame \/ PutUpdate \/ PutReread

SpecFrame == InitSheet /\ [][NextFrame]_vars

\* the step changes or removes row id of the table
Touched(id) == id \notin DOMAIN store' \/ store'[id] # store[id]

(* C24: a PUT or DELETE changes no task but the one its :id names, and     *)
(* that one only when the caller owns it; a PUT leaves the id, the owner   *)
(* and the creation time of the task as they were; GET /, GET /:id and the *)
(* export change nothing in the table.                                     *)
C24_OnlyTargetChanges ==
    [][ /\ req'.op \in {"list", "get", "export"} => store' = store
        /\ DOMAIN store' \subseteq DOMAIN store
        /\ \A id \in DOMAIN store :
              /\ id \in DOMAIN store'
                    => /\ store'[id].id = store[id].id
                       /\ store'[id].user_id = store[id].user_id
                       /\ store'[id].created_at = store[id].created_at
              /\ Touched(id)
                    => /\ req'.op \in {"put", "delete"}
                       /\ req'.id = id
                       /\ authenticateToken(req'.token) = store[id].user_id
                       /\ id \notin DOMAIN store' => req'.op = "delete"
      ]_vars

\* alice deleted one of her two tasks and the other is still there
C24_Witness ==
    /\ req.op = "delete"
    /\ resp.status = 200
    /\ req.id \notin DOMAIN store
    /\ \E id \in DOMAIN store : store[id].user_id = Caller

(* C25: a bulk upload that stores no task is answered with a failure: a   *)
(* success response never reports imported = 0.                            *)
C25_NothingStoredIsFailure ==
    (req.op = "bulk" /\ Answered)
        => /\ resp.status = 200 => resp.imported >= 1
           /\ (cur.pc = "done" /\ cur.inserted = <<>>) => resp.status >= 400

(* C26: every task a bulk import creates belongs to the caller, has status *)
(* pending and has a string as description, the empty string when the file *)
(* gives none.                                                             *)
C26_ImportedRowDefaults ==
    [][ (cur.pc = "bulk-insert" /\ store' # store)
            => /\ DOMAIN store' = DOMAIN store \cup {nextId}
               /\ nextId \notin DOMAIN store
               /\ Caller \in Users
               /\ store'[nextId].user_id = Caller
               /\ store'[nextId].status = "pending"
               /\ store'[nextId].description # Undefined
               /\ store'[nextId].description
                     = cur.tasks[cur.i].description
      ]_vars

\* bob imported a worksheet row without description
C26_Witness ==
    /\ BulkAnswered
    /\ req.mimetype = XLSX
    /\ Caller = "bob"
    /\ \E id \in InsertedIds(cur) :
          /\ store[id].user_id = "bob"
          /\ store[id].status = "pending"
          /\ store[id].description = ""

\* the worksheet handler has run over rows 2, 3, ... of the sheet
SheetRead == cur.pc = "rows" /\ XLSX \in cur.read

\* the errors that name row number n of the worksheet
SheetErrors(n) ==
    {e \in 1 .. Len(cur.xlsx.errors) : cur.xlsx.errors[e].at = n}

\* data row k, which is row k + 1 of the worksheet, gave one candidate
\* built from its cells 1-4 and no error
OneCandidate(k, visited) ==
    LET at == Cardinality({j \in 1 .. k : j \in visited
                                          /\ SheetErrors(j + 1) = {}})
        r == cur.rows[k]
    IN /\ SheetErrors(k + 1) = {}
       /\ at \in 1 .. Len(cur.xlsx.tasks)
       /\ cur.xlsx.tasks[at].title = r.title
       /\ cur.xlsx.tasks[at].description = r.description
       /\ cur.xlsx.tasks[at].effort_days
             = (IF Digits(r.effort).ok /\ Digits(r.effort).n # 0
                THEN Digits(r.effort).n ELSE 1)
       /\ cur.xlsx.tasks[at].due_date
             = (IF r.due = "" THEN Epoch ELSE IsoDate(r.due))

\* data row k gave one error that names its row number, and no candidate
OneError(k) ==
    /\ Cardinality(SheetErrors(k + 1)) = 1
    /\ \/ cur.rows[k].title = ""
       \/ (~ValidDate(cur.rows[k].due) /\ cur.rows[k].due # "")

\* row 1 gives nothing and each of the rows in visited gives one outcome
OneOutcomeEach(visited) ==
    /\ SheetErrors(1) = {}
    /\ Len(cur.xlsx.tasks) + Len(cur.xlsx.errors) = Cardinality(visited)
    /\ \A k \in visited : OneCandidate(k, visited) \/ OneError(k)
    /\ \A k \in (1 .. Len(cur.rows)) \ visited : SheetErrors(k + 1) = {}

(* C27: in a worksheet row 1 gives no candidate and no error whatever it   *)
(* holds, and every later row gives exactly one candidate built from its   *)
(* columns 1-4 or exactly one error naming its row number.                 *)
C27_EveryLaterRowOneOutcome ==
    SheetRead => OneOutcomeEach(1 .. Len(cur.rows))

(* C27, as the code has it: row 1 gives nothing whatever it holds; every   *)
(* later row with a value in some cell gives exactly one candidate built   *)
(* from its columns 1-4 or exactly one error naming its row number; a      *)
(* later row without values gives neither.                                 *)
C27_EveryVisitedRowOneOutcome ==
    SheetRead
        => OneOutcomeEach({k \in 1 .. Len(cur.rows) : HasValues(cur.rows[k])})

\* a worksheet whose row 1 looks like a data row, whose row 2 has no
\* values and whose row 3 has a due date that is no date
C27_Witness ==
    /\ SheetRead
    /\ cur.header = DataAsHeader
    /\ cur.rows = <<Cells("", "", ""), Cells("A", "2", BadDate)>>
    /\ cur.xlsx.tasks = <<>>
    /\ cur.xlsx.errors = <<[kind |-> "exception", at |-> 3]>>

-----------------------------------------------------------------------------
(* server.js from startServer() to the end of the process                 *)

\* startServer has called initDatabase and awaits it
Starting == [Serving EXCEPT !.phase = "init-db", !.tables = FALSE]

InitServer ==
    /\ store = << >>
    /\ nextId = 1
    /\ disk = {}
    /\ enoent = FALSE
    /\ req = NoRequest
    /\ cur = NoCur
    /\ resp = NoResp
    /\ now = 0
    /\ lastId = MaxId
    /\ other = NoOther
    /\ page = NoPage
    /\ proc = Starting

\* initDatabase settles and startServer goes on to app.listen: the tables
\* were created, or a statement failed and the catch block of initDatabase
\* logged the error; the promise is fulfilled either way
InitDatabase ==
    /\ proc.phase = "init-db"
    /\ \E created \in BOOLEAN :
          proc' = [proc EXCEPT !.phase = "listening", !.tables = created]
    /\ UNCHANGED <<store, nextId, disk, enoent, req, cur, resp, now, lastId,
                   other, page>>

\* process.on('SIGTERM'): server is not declared in server.js, so
\* server.close raises ReferenceError; the uncaught exception ends the
\* process with exit code 1
Sigterm ==
    /\ proc.phase \in {"init-db", "listening"}
    /\ proc' = [proc EXCEPT !.phase = "exited", !.signal = "SIGTERM",
                            !.error = "ReferenceError", !.exitCode = 1]
    /\ UNCHANGED <<store, nextId, disk, enoent, req, cur, resp, now, lastId,
                   other, page>>

\* process.on('SIGINT'): process.exit(0)
Sigint ==
    /\ proc.phase \in {"init-db", "listening"}
    /\ proc' = [proc EXCEPT !.phase = "exited", !.signal = "SIGINT",
                            !.exitCode = 0]
    /\ UNCHANGED <<store, nextId, disk, enoent, req, cur, resp, now, lastId,
                   other, page>>

\* the requests the listening server handles on its tables
Serve ==
    /\ proc.phase = "listening"
    /\ proc.tables
    /\ Idle
    /\ \/ \E tok \in Tokens : ListTasks(tok)
       \/ \E tok \in Tokens : \E id \in IdsOf(tok) : GetTask(tok, id)
       \/ \E tok \in Tokens : \E body \in BodiesOf(tok, CreateBodies) :
             CreateTask(tok, body)
       \/ \E tok \in Tokens : \E id \in IdsOf(tok) : DeleteTask(tok, id)

NextServer == InitDatabase \/ Sigterm \/ Sigint \/ Serve

SpecServer == InitServer /\ [][NextServer]_vars

(* C28: on SIGTERM the handler closes the HTTP server, the 'HTTP server    *)
(* closed' callback runs and no error is raised.                           *)
C28_SigtermClosesServer ==
    proc.signal = "SIGTERM" => proc.error = "" /\ proc.closed

(* C29: the server listens only after initDatabase has finished, and when  *)
(* the tables could not be initialised it does not listen: the process     *)
(* exits with status 1.                                                    *)
C29_NoListenWithoutTables ==
    /\ proc.phase = "listening" => proc.tables
    /\ (proc.phase # "init-db" /\ ~proc.tables /\ proc.signal = "")
          => proc.phase = "exited" /\ proc.exitCode = 1

-----------------------------------------------------------------------------
(* pages/Tasks.js: the task list of the page and its fetches              *)

MaxFetches == 3

\* the user the page is signed in as
PageToken == "tok-alice"

InitPage ==
    /\ store = (1 :> NewRow(1, "alice", "A", "d", 2, D1, 0))
    /\ nextId = 2
    /\ lastId = MaxTasks
    /\ now = 0
    /\ disk = {}
    /\ enoent = FALSE
    /\ req = NoRequest
    /\ cur = NoCur
    /\ resp = NoResp
    /\ other = NoOther
    /\ page = NoPage
    /\ proc = Serving

\* fetchTasks up to its await: the request for the list leaves the page
Fetching(p) ==
    [p EXCEPT !.issued = @ + 1,
              !.fetches = Append(@, [state |-> "sent", data |-> <<>>])]

\* useEffect(() => { fetchTasks() }, []) on mount
Mount ==
    /\ page.issued = 0
    /\ page' = Fetching(page)
    /\ UNCHANGED <<store, nextId, disk, enoent, req, cur, resp, now, lastId,
                   other, proc>>

\* handleDeleteTask on a task of the displayed list: the DELETE is awaited,
\* fetchTasks is called when it succeeded
handleDeleteTask(k) ==
    LET id == page.tasks[k].id IN
    /\ page.issued < MaxFetches
    /\ IF OwnedBy(id, authenticateToken(PageToken))
       THEN store' = Without(id) /\ page' = Fetching(page)
       ELSE UNCHANGED <<store, page>>
    /\ UNCHANGED <<nextId, disk, enoent, req, cur, resp, now, lastId,
                   other, proc>>

\* INSERT INTO tasks by the request whose completion the page is told of
StoredOne(description) ==
    /\ nextId <= lastId
    /\ \E t \in ClockReadings :
          /\ now' = t
          /\ store' = (nextId :> NewRow(nextId, authenticateToken(PageToken),
                                        "A", description, 2, D1, t)) @@ store
    /\ nextId' = nextId + 1

\* handleTaskSaved: the form has stored a task
handleTaskSaved ==
    /\ page.issued \in 1 .. MaxFetches - 1
    /\ StoredOne("d")
    /\ page' = Fetching(page)
    /\ UNCHANGED <<disk, enoent, req, cur, resp, lastId, other, proc>>

\* handleBulkUploadComplete: the upload has stored a row of a file
handleBulkUploadComplete ==
    /\ page.issued \in 1 .. MaxFetches - 1
    /\ StoredOne("")
    /\ page' = Fetching(page)
    /\ UNCHANGED <<disk, enoent, req, cur, resp, lastId, other, proc>>

\* router.get('/') answers the k-th fetch with the tasks of that moment
FetchServed(k) ==
    /\ page.fetches[k].state = "sent"
    /\ \E tasks \in TasksOf(authenticateToken(PageToken)) :
          page' = [page EXCEPT !.fetches[k] =
                      [state |-> "served",
                       data |-> [i \in 1 .. Len(tasks) |->
                                    JsonTask(tasks[i])]]]
    /\ UNCHANGED <<store, nextId, disk, enoent, req, cur, resp, now, lastId,
                   other, proc>>

\* fetchTasks after its await: setTasks(data) for the k-th fetch
FetchArrives(k) ==
    /\ page.fetches[k].state = "served"
    /\ page' = [page EXCEPT !.fetches[k].state = "done",
                            !.tasks = page.fetches[k].data,
                            !.shown = k]
    /\ UNCHANGED <<store, nextId, disk, enoent, req, cur, resp, now, lastId,
                   other, proc>>

NextPage ==
    \/ Mount
    \/ \E k \in 1 .. Len(page.tasks) : handleDeleteTask(k)
    \/ handleTaskSaved
    \/ handleBulkUploadComplete
    \/ \E k \in 1 .. Len(page.fetches) : FetchServed(k)
    \/ \E k \in 1 .. Len(page.fetches) : FetchArrives(k)

SpecPage == InitPage /\ [][NextPage]_vars

\* no fetch of the page is outstanding
AllFetchesDone ==
    /\ page.issued > 0
    /\ \A k \in 1 .. page.issued : page.fetches[k].state = "done"

(* C30: once every outstanding request of the Tasks page has completed,    *)
(* the displayed list is the list the most recently issued fetch returned, *)
(* whatever the order the responses arrived in.                            *)
C30_ShowsLatestFetch ==
    AllFetchesDone => page.tasks = page.fetches[page.issued].data

=============================================================================
